---- MODULE Spec2Model ----
(***************************************************************************)
(* Control session of leafysd (src/src/control.c): the reactor thread      *)
(* (control_new, the libevent callbacks, control_free), the worker thread  *)
(* (control_worker_main), the session mutex and condition variable, and    *)
(* the transaction table (control_set_transactions).                       *)
(*                                                                         *)
(* Each thread has a program counter (rpc for the reactor, wpc for the     *)
(* worker); one action is one step of a function between two points at     *)
(* which the other thread can run.                                         *)
(***************************************************************************)
EXTENDS Integers, Sequences, FiniteSets, TLC

\* ---------------------------------------------------------------- bounds
MaxFd  == 2       \* descriptor numbers accept() can hand out: 1..MaxFd
MaxRid == 2       \* requests stamped on either side of the counter's zero

\* ------------------------------------------------------------- constants
NULL    == 0      \* null struct bufferevent*; an endpoint is named by its fd
NOFD    == -1     \* the invalid descriptor
DFD     == 10     \* data-node TCP socket (local ddatafd of control_new)
UFD     == 11     \* UDP sample socket (cs->ddatafd)
LFD     == 12     \* listener socket
RidMod  == 65536  \* ctl_cur_rid is a uint16_t

ClientFds == 1..MaxFd
Fds       == ClientFds \cup {DFD, UFD, LFD}

\* enum control_worker_why, as the set of asserted bits
CONTROL_WHY_NONE == {}
WhyBits == {"CLIENT_CMD", "CLIENT_RES", "DNODE_TXN", "EXIT"}
ClientBits == {"CLIENT_CMD", "CLIENT_RES"}

\* cs->ctl_txns: <<>> is the null pointer, <<l>> points at the list l of
\* request ids (one r_id per transaction; -1 is a request not yet stamped)
NULL_TXNS == <<>>

VARIABLES
    rpc,          \* reactor thread: position
    retpc,        \* reactor thread: where the current callee returns to
    side,         \* reactor thread: "client" or "dnode" (bevp, on_open, on_close,
                  \* reader) inside a callback, "none" outside
    fd,           \* reactor thread: fd argument of control_conn_open
    why,          \* reactor thread: read_why_wake / argument of control_must_wake
    args,         \* reactor thread: <<txns, n_txns>> of control_set_transactions
    txn_at_event, \* history: cs->ctl_cur_txn when the EOF/ERROR event being
                  \* handled was delivered; -1 outside the close handling
    wpc,          \* worker thread: position
    mtx,          \* cs->mtx: "free", "reactor" or "worker"
    wake_why,     \* cs->wake_why
    cbev, dbev,   \* cs->cbev, cs->dbev
    ctl_txns, ctl_n_txns, ctl_cur_txn, ctl_cur_rid,
    ddatafd,      \* cs->ddatafd
    ddataevt,     \* cs->ddataevt registered
    bevs,         \* per fd, its bufferevent: "none", "disabled", "enabled"
    fds,          \* descriptors: [open: the open ones, bad: those closed while
                  \* not open (closed a second time)]
    opened,       \* per side: the side's open hook returned success
    acqLog,       \* resources acquired by control_new, in order
    relLog,       \* release calls of control_new's unwinding / control_free
    ops,          \* per side: the side's cs_thread hook is non-null
    inflight,     \* indices of the installed list whose request has been
                  \* written to the data node and not been answered yet
    responded     \* indices of the installed list whose response has arrived

\* raw_packets.c: one packet sent by one host and received by another
VARIABLES
    cpc,          \* "off", "start", "sent", "send_err", "done"
    sle, rle,     \* the sending / receiving host is little-endian
    orig,         \* history: the sender's packet memory before raw_packet_send
    spkt,         \* the sender's packet memory (raw_packet_send converts in place)
    snd_n,        \* iterations of the sample loop of raw_msg_bsamp_hton
    wire,         \* the bytes handed to send(), as they reach the receiver
    rbuf,         \* the receiver's packet memory
    rbuf0,        \* history: the receiver's packet memory before raw_packet_recv
    packtype,     \* *packtype of raw_packet_recv
    packtype0,    \* history: *packtype before raw_packet_recv
    rcv_n,        \* iterations of the sample loop of raw_msg_bsamp_ntoh
    sockerr,      \* the errno recv() fails with, "none" when it succeeds
    ret,          \* return value of raw_packet_recv
    errno         \* errno after raw_packet_recv

vars == <<rpc, retpc, side, fd, why, args, txn_at_event, wpc, mtx, wake_why, cbev, dbev,
          ctl_txns, ctl_n_txns, ctl_cur_txn, ctl_cur_rid, ddatafd, ddataevt,
          bevs, fds, opened, acqLog, relLog, ops, inflight, responded,
          cpc, sle, rle, orig, spkt, snd_n, wire, rbuf, rbuf0, packtype,
          packtype0, rcv_n, sockerr, ret, errno>>

reactorLocals == <<retpc, side, fd, why, args, txn_at_event>>
txnVars       == <<ctl_txns, ctl_n_txns, ctl_cur_txn, ctl_cur_rid>>
sessVars      == <<wake_why, cbev, dbev, ctl_txns, ctl_n_txns, ctl_cur_txn,
                   ctl_cur_rid>>
resVars       == <<ddatafd, ddataevt, bevs, fds, opened, acqLog, relLog>>
hookVars      == <<inflight, responded>>
codecVars     == <<cpc, sle, rle, orig, spkt, snd_n, wire, rbuf, rbuf0,
                   packtype, packtype0, rcv_n, sockerr, ret, errno>>
envVars       == <<ops, hookVars, codecVars>>

Sides == {"client", "dnode"}

\* *bevp for the side
slot(s) == IF s = "client" THEN cbev ELSE dbev

\* socket() / accept() returning descriptor f
openFd(f) == [fds EXCEPT !.open = @ \cup {f}]

\* evutil_closesocket(f) / close(f) on the descriptor table t
closeIn(t, f) ==
    IF f \in t.open THEN [t EXCEPT !.open = @ \ {f}]
                    ELSE [t EXCEPT !.bad = @ \cup {f}]

closeFd(f) == closeIn(fds, f)

Reverse(s) == [i \in 1..Len(s) |-> s[Len(s) + 1 - i]]

\* ============================================================ raw_packets.c
PACKET_HEADER_MAGIC      == 90    \* 0x5A
PACKET_HEADER_PROTO_VERS == 0

\* Packet type codes and sizes of raw_packets.h
RAW_PKT_TYPE_BSAMP == 1
RAW_PKT_TYPE_REQ   == 2
RAW_PKT_TYPE_RES   == 3
RAW_PKT_TYPE_ERR   == 127
PacketSize == 12    \* sizeof(struct raw_packet): 4 header bytes, 8 payload bytes
SampSize   == 2     \* sizeof(raw_samp_t)
MaxSamps   == 2     \* board samples carry at most this many samples

KnownTypes == {RAW_PKT_TYPE_BSAMP, RAW_PKT_TYPE_REQ, RAW_PKT_TYPE_RES,
               RAW_PKT_TYPE_ERR}

\* Packet memory is a sequence of bytes. Offsets (from 0): _p_magic 0,
\* _p_proto_vers 1, p_type 2, p_flags 3; request / response: r_id 4, r_type 6,
\* r_addr 7, r_val 8; board sample: bs_idx 4, bs_nchips 8, bs_nlines 10,
\* bs_samples 12 + 2i.
\* A 16-bit value is a number; a 32-bit value is its four base-256 digits,
\* most significant first.
val16(le, b1, b2) == IF le THEN b1 + 256 * b2 ELSE 256 * b1 + b2
mem16(le, x) == IF le THEN <<x % 256, x \div 256>> ELSE <<x \div 256, x % 256>>
val32(le, b) == IF le THEN <<b[4], b[3], b[2], b[1]>> ELSE b
mem32(le, x) == IF le THEN <<x[4], x[3], x[2], x[1]>> ELSE x

\* htons / ntohs / htonl / ntohl on a host of the given byte order
htons(le, x) == val16(le, x \div 256, x % 256)
ntohs(le, x) == LET m == mem16(le, x) IN 256 * m[1] + m[2]
htonl(le, x) == val32(le, x)
ntohl(le, x) == mem32(le, x)

get16(le, m, off) == val16(le, m[off + 1], m[off + 2])
put16(le, m, off, x) ==
    LET b == mem16(le, x) IN [m EXCEPT ![off + 1] = b[1], ![off + 2] = b[2]]
get32(le, m, off) == val32(le, <<m[off + 1], m[off + 2], m[off + 3], m[off + 4]>>)
put32(le, m, off, x) ==
    LET b == mem32(le, x) IN
    [m EXCEPT ![off + 1] = b[1], ![off + 2] = b[2], ![off + 3] = b[3],
              ![off + 4] = b[4]]

p_magic(m) == m[1]
p_proto_vers(m) == m[2]
p_type(m) == m[3]
p_flags(m) == m[4]
payload(m) == SubSeq(m, 5, Len(m))

\* raw_bsamp_nsamps / raw_packet_sampsize: read the dimensions as they are
\* in memory now
raw_bsamp_nsamps(le, m) == get16(le, m, 8) * get16(le, m, 10)
raw_packet_sampsize(le, m) == raw_bsamp_nsamps(le, m) * SampSize

\* raw_packet_init
raw_packet_init(m, type, flags) ==
    [m EXCEPT ![1] = PACKET_HEADER_MAGIC, ![2] = PACKET_HEADER_PROTO_VERS,
              ![3] = type, ![4] = flags]

\* raw_packet_create_bsamp on a host of the given byte order; fresh memory
\* is modelled as zero bytes
raw_packet_create_bsamp(le, nchips, nlines) ==
    LET z == [i \in 1..(PacketSize + nchips * nlines * SampSize) |-> 0] IN
    put16(le, put16(le, raw_packet_init(z, RAW_PKT_TYPE_BSAMP, 0), 8, nchips),
          10, nlines)

\* for (i = 0; i < n; i++) msg->bs_samples[i] = conv(msg->bs_samples[i]), from
\* i on; samples outside the allocation are not touched here
RECURSIVE samples_hton(_, _, _, _)
samples_hton(le, m, i, n) ==
    IF i >= n \/ PacketSize + (i + 1) * SampSize > Len(m) THEN m
    ELSE samples_hton(le,
             put16(le, m, PacketSize + i * SampSize,
                   htons(le, get16(le, m, PacketSize + i * SampSize))),
             i + 1, n)

RECURSIVE samples_ntoh(_, _, _, _)
samples_ntoh(le, m, i, n) ==
    IF i >= n \/ PacketSize + (i + 1) * SampSize > Len(m) THEN m
    ELSE samples_ntoh(le,
             put16(le, m, PacketSize + i * SampSize,
                   ntohs(le, get16(le, m, PacketSize + i * SampSize))),
             i + 1, n)

\* Variant of raw_msg_bsamp_hton: the dimensions are converted first
raw_msg_bsamp_hton_dimsfirst(le, m) ==
    LET m1 == put32(le, m, 4, htonl(le, get32(le, m, 4)))
        m2 == put16(le, m1, 8, htons(le, get16(le, m1, 8)))
        m3 == put16(le, m2, 10, htons(le, get16(le, m2, 10)))
        n  == raw_bsamp_nsamps(le, m3)
    IN  [mem |-> samples_hton(le, m3, 0, n), n |-> n]

\* raw_msg_bsamp_hton: the samples, then bs_idx, bs_nchips, bs_nlines
raw_msg_bsamp_hton(le, m) ==
    LET n  == raw_bsamp_nsamps(le, m)
        m1 == samples_hton(le, m, 0, n)
        m2 == put32(le, m1, 4, htonl(le, get32(le, m1, 4)))
        m3 == put16(le, m2, 8, htons(le, get16(le, m2, 8)))
    IN  [mem |-> put16(le, m3, 10, htons(le, get16(le, m3, 10))), n |-> n]

\* raw_msg_req_hton / raw_msg_res_hton: r_id, r_val
raw_msg_req_hton(le, m) ==
    put32(le, put16(le, m, 4, htons(le, get16(le, m, 4))), 8,
          htonl(le, get32(le, m, 8)))

\* raw_msg_bsamp_ntoh: bs_idx, bs_nchips, bs_nlines, then the samples
raw_msg_bsamp_ntoh(le, m) ==
    LET m1 == put32(le, m, 4, ntohl(le, get32(le, m, 4)))
        m2 == put16(le, m1, 8, ntohs(le, get16(le, m1, 8)))
        m3 == put16(le, m2, 10, ntohs(le, get16(le, m2, 10)))
        n  == raw_bsamp_nsamps(le, m3)
    IN  [mem |-> samples_ntoh(le, m3, 0, n), n |-> n]

\* raw_msg_req_ntoh / raw_msg_res_ntoh: r_id, r_val
raw_msg_req_ntoh(le, m) ==
    put32(le, put16(le, m, 4, ntohs(le, get16(le, m, 4))), 8,
          ntohl(le, get32(le, m, 8)))

Min(a, b) == IF a < b THEN a ELSE b

\* raw_packet_send up to the send() call: the packet memory after the
\* in-place conversion, the bytes handed to send(), the sample loop's
\* iterations, errno
raw_packet_send_op(le, m) ==
    LET type == p_type(m) IN
    IF type = RAW_PKT_TYPE_BSAMP
      THEN LET size == PacketSize + raw_packet_sampsize(le, m)
               h    == raw_msg_bsamp_hton(le, m)
           IN  [mem |-> h.mem, n |-> h.n, errno |-> "none",
                bytes |-> SubSeq(h.mem, 1, Min(size, Len(h.mem)))]
    ELSE IF type \in {RAW_PKT_TYPE_REQ, RAW_PKT_TYPE_RES}
      THEN LET c == raw_msg_req_hton(le, m) IN
           [mem |-> c, n |-> 0, errno |-> "none",
            bytes |-> SubSeq(c, 1, PacketSize)]
    ELSE IF type = RAW_PKT_TYPE_ERR
      THEN [mem |-> m, n |-> 0, errno |-> "none",
            bytes |-> SubSeq(m, 1, PacketSize)]
    ELSE [mem |-> m, n |-> 0, errno |-> "EINVAL", bytes |-> <<>>]

\* Variant of the magic test: any magic byte passes
recv_magic_any(m) == TRUE

\* packet->_p_magic != PACKET_HEADER_MAGIC fails the receive
recv_magic_ok(m) == p_magic(m) = PACKET_HEADER_MAGIC

\* Variant of the expected-type handling: the received type always replaces
\* the expected one
recv_packtype_overwrite(pt, m) == [type |-> p_type(m), ok |-> TRUE]

\* if (*packtype == 0) *packtype = packet->p_type;
\* else if (*packtype != packet->p_type) fail with EIO
recv_packtype(pt, m) ==
    IF pt = 0 THEN [type |-> p_type(m), ok |-> TRUE]
    ELSE [type |-> pt, ok |-> pt = p_type(m)]

\* raw_packet_recv with the bytes w waiting on the socket; serr is the errno
\* a failing recv() sets ("none": recv() succeeds and copies at most packsize
\* bytes into the packet memory)
raw_packet_recv_op(le, buf, pt, w, serr) ==
    LET packsize == PacketSize + (IF pt = RAW_PKT_TYPE_BSAMP
                                    THEN raw_packet_sampsize(le, buf) ELSE 0)
        k    == Min(Min(packsize, Len(w)), Len(buf))
        r    == IF serr = "none" THEN k ELSE -1
        buf1 == IF serr = "none"
                  THEN [i \in 1..Len(buf) |-> IF i <= k THEN w[i] ELSE buf[i]]
                  ELSE buf
        t    == recv_packtype(pt, buf1)
        fail(ptype, e) ==
            [mem |-> buf1, packtype |-> ptype, ret |-> -1, errno |-> e, n |-> 0]
    IN
    IF ~recv_magic_ok(buf1) THEN fail(pt, "EPROTO")
    ELSE IF r = -1 THEN fail(pt, serr)
    ELSE IF ~t.ok THEN fail(t.type, "EIO")
    ELSE IF t.type = RAW_PKT_TYPE_BSAMP
      THEN LET h == raw_msg_bsamp_ntoh(le, buf1) IN
           [mem |-> h.mem, packtype |-> t.type, ret |-> r, errno |-> "none",
            n |-> h.n]
    ELSE IF t.type \in {RAW_PKT_TYPE_REQ, RAW_PKT_TYPE_RES}
      THEN [mem |-> raw_msg_req_ntoh(le, buf1), packtype |-> t.type,
            ret |-> r, errno |-> "none", n |-> 0]
    ELSE IF t.type = RAW_PKT_TYPE_ERR
      THEN [mem |-> buf1, packtype |-> t.type, ret |-> r, errno |-> "none",
            n |-> 0]
    ELSE fail(t.type, "EPROTO")

\* ------------------------------------------------------- codec: the inputs
OtherType == 5      \* a type byte that is none of the four codes
Zero(n) == [i \in 1..n |-> 0]
Flags == {0, 1}
RidVals == {258, 65535}                 \* 0x0102, 0xFFFF
ValVals == {<<1, 2, 3, 4>>, <<0, 255, 128, 0>>}
SampVals == {258, 65280}                \* 0x0102, 0xFF00
Dims == {d \in (1..MaxSamps) \X (1..MaxSamps) : d[1] * d[2] <= MaxSamps}

\* Request and response packets as a host of the given byte order builds them
ReqPackets(le) ==
    {put32(le, put16(le, [raw_packet_init(Zero(PacketSize), t, f)
                             EXCEPT ![7] = 1, ![8] = 2], 4, rid), 8, rval) :
       t \in {RAW_PKT_TYPE_REQ, RAW_PKT_TYPE_RES}, f \in Flags,
       rid \in RidVals, rval \in ValVals}

\* Error packets: the payload bytes are whatever the memory held
ErrPackets ==
    {raw_packet_init(<<0, 0, 0, 0, 1, 2, 3, 4, 5, 6, 7, 8>>, RAW_PKT_TYPE_ERR, f) :
       f \in Flags}

\* samples[i] = s[i + 1] for all i, stored from index i on
RECURSIVE fill(_, _, _, _)
fill(le, m, s, i) ==
    IF i > Len(s) THEN m
    ELSE fill(le, put16(le, m, PacketSize + (i - 1) * SampSize, s[i]), s, i + 1)

\* Board sample packets
BsampPackets(le) ==
    UNION {{[fill(le, put32(le, raw_packet_create_bsamp(le, d[1], d[2]), 4,
                           <<0, 0, 0, 42>>), s, 1) EXCEPT ![4] = f] :
              s \in [1..(d[1] * d[2]) -> SampVals], f \in Flags} : d \in Dims}

SenderPackets(le) ==
    ReqPackets(le) \cup ErrPackets \cup BsampPackets(le)
      \cup {raw_packet_init(Zero(PacketSize), OtherType, 0)}

\* The receiver's packet memory before the call: made by raw_packet_init or
\* raw_packet_create_bsamp (for the sender's dimensions when it sends a board
\* sample), or the same with a magic byte that is not the magic
RecvBuffers(le, pt, sl, m) ==
    LET d == IF p_type(m) = RAW_PKT_TYPE_BSAMP
               THEN <<get16(sl, m, 8), get16(sl, m, 10)>> ELSE <<1, 1>>
        b == IF pt = RAW_PKT_TYPE_BSAMP
               THEN raw_packet_create_bsamp(le, d[1], d[2])
               ELSE raw_packet_init(Zero(PacketSize), pt, 0)
    IN  {b, [b EXCEPT ![1] = 0]}

\* -------------------------------------------------- codec: the operations
\* Before any packet is handled
CodecOff ==
    /\ cpc = "off" /\ sle = FALSE /\ rle = FALSE
    /\ orig = <<>> /\ spkt = <<>> /\ snd_n = 0 /\ wire = <<>>
    /\ rbuf = <<>> /\ rbuf0 = <<>> /\ packtype = 0 /\ packtype0 = 0
    /\ rcv_n = 0 /\ sockerr = "none" /\ ret = 0 /\ errno = "none"

\* raw_packet_send(sockfd, packet, flags) on the sending host
raw_packet_send ==
    /\ cpc = "start"
    /\ LET s == raw_packet_send_op(sle, spkt) IN
         /\ spkt' = s.mem
         /\ snd_n' = s.n
         /\ wire' = s.bytes
         /\ cpc' = IF s.errno = "none" THEN "sent" ELSE "send_err"
    /\ UNCHANGED <<sle, rle, orig, rbuf, rbuf0, packtype, packtype0, rcv_n,
                   sockerr, ret, errno>>

\* The peer or the network puts another byte in the magic position (any
\* byte), the version position or the type position of the packet
Bytes == 0..255
TamperBytes ==
    [p \in 1..3 |-> IF p = 1 THEN Bytes
                    ELSE IF p = 2 THEN {1, 255}
                    ELSE {0, OtherType} \cup KnownTypes]
tamper ==
    /\ cpc = "sent"
    /\ \E pos \in 1..3 : \E b \in TamperBytes[pos] :
         /\ wire[pos] # b
         /\ wire' = [wire EXCEPT ![pos] = b]
    /\ cpc' = "tampered"
    /\ UNCHANGED <<sle, rle, orig, spkt, snd_n, rbuf, rbuf0, packtype,
                   packtype0, rcv_n, sockerr, ret, errno>>

\* raw_packet_recv(sockfd, packet, packtype, flags) on the receiving host
raw_packet_recv ==
    /\ cpc \in {"sent", "tampered"}
    /\ LET r == raw_packet_recv_op(rle, rbuf, packtype, wire, sockerr) IN
         /\ rbuf' = r.mem
         /\ packtype' = r.packtype
         /\ ret' = r.ret
         /\ errno' = r.errno
         /\ rcv_n' = r.n
    /\ cpc' = "done"
    /\ UNCHANGED <<sle, rle, orig, spkt, snd_n, wire, rbuf0, packtype0, sockerr>>

\* ------------------------------------------------------------------ init
\* Before control_new: nothing allocated. The struct fields are assigned by
\* control_new before anything reads them.
SessionFields ==
    /\ rpc = "new_malloc" /\ retpc = "none" /\ side = "none" /\ fd = NOFD
    /\ why = CONTROL_WHY_NONE /\ args = <<NULL_TXNS, 0>> /\ txn_at_event = -1
    /\ wpc = "none" /\ mtx = "uninit"
    /\ wake_why = CONTROL_WHY_NONE /\ cbev = NULL /\ dbev = NULL
    /\ ctl_txns = NULL_TXNS /\ ctl_n_txns = 0 /\ ctl_cur_txn = -1
    /\ ddatafd = NOFD /\ ddataevt = FALSE
    /\ bevs = [f \in Fds |-> "none"]
    /\ fds = [open |-> {}, bad |-> {}]
    /\ opened = [s \in Sides |-> FALSE]
    /\ acqLog = <<>> /\ relLog = <<>>
    /\ ops \in [Sides -> BOOLEAN]
    /\ inflight = {} /\ responded = {}

SessionInit == SessionFields /\ ctl_cur_rid = 0

Init == SessionInit /\ CodecOff


\* The process is gone: exit(EXIT_FAILURE) of control_fatal_err, a failed
\* assert, or a fault.
Dead == rpc \in {"fatal", "abort", "crashed"}

\* ----------------------------------------------------------- control_new
acquire(r) == acqLog' = Append(acqLog, r)
release(r) == relLog' = Append(relLog, r)

\* malloc(sizeof(struct control_session))
control_new_malloc ==
    /\ rpc = "new_malloc"
    /\ \E ok \in BOOLEAN :
         IF ok THEN /\ rpc' = "new_listener"
                    /\ acquire("cs")
               ELSE /\ rpc' = "nocs"
                    /\ UNCHANGED acqLog
    /\ UNCHANGED <<reactorLocals, wpc, mtx, sessVars, ddatafd, ddataevt, bevs,
                   fds, opened, relLog, envVars>>

\* control_new_listener: the passive socket, then the evconnlistener; when
\* the evconnlistener cannot be allocated the socket is closed again.
control_new_listener ==
    /\ rpc = "new_listener"
    /\ \E res \in {"ok", "nosock", "noecl"} :
         /\ rpc' = IF res = "ok" THEN "new_connect" ELSE "nocecl"
         /\ acqLog' = IF res = "ok" THEN Append(acqLog, "cecl") ELSE acqLog
         /\ fds' = IF res = "ok" THEN openFd(LFD) ELSE fds
    /\ UNCHANGED <<reactorLocals, wpc, mtx, sessVars, ddatafd, ddataevt, bevs,
                   opened, relLog, envVars>>

\* sockutil_get_tcp_connected_p(cs->daddr, cs->dport)
control_new_connect ==
    /\ rpc = "new_connect"
    /\ \E ok \in BOOLEAN :
         IF ok THEN /\ rpc' = "new_nonblock"
                    /\ fds' = openFd(DFD)
                    /\ acquire("dsock")
               ELSE /\ rpc' = "nodsock"
                    /\ UNCHANGED <<fds, acqLog>>
    /\ UNCHANGED <<reactorLocals, wpc, mtx, sessVars, ddatafd, ddataevt, bevs,
                   opened, relLog, envVars>>

\* evutil_make_socket_nonblocking(ddatafd)
control_new_nonblock ==
    /\ rpc = "new_nonblock"
    /\ \E ok \in BOOLEAN : rpc' = IF ok THEN "new_mtx" ELSE "nodnonblock"
    /\ UNCHANGED <<reactorLocals, wpc, mtx, sessVars, resVars, envVars>>

\* pthread_mutex_init(&cs->mtx, NULL)
control_new_mtx ==
    /\ rpc = "new_mtx"
    /\ \E ok \in BOOLEAN :
         IF ok THEN /\ rpc' = "new_cv"
                    /\ mtx' = "free"
                    /\ acquire("mtx")
               ELSE /\ rpc' = "nomtx"
                    /\ UNCHANGED <<mtx, acqLog>>
    /\ UNCHANGED <<reactorLocals, wpc, sessVars, ddatafd, ddataevt, bevs,
                   fds, opened, relLog, envVars>>

\* pthread_cond_init(&cs->cv, NULL); then wake_why, cecl and cbev are set
control_new_cv ==
    /\ rpc = "new_cv"
    /\ \E ok \in BOOLEAN :
         IF ok THEN /\ rpc' = "new_cstart"
                    /\ acquire("cv")
                    /\ wake_why' = CONTROL_WHY_NONE
                    /\ cbev' = NULL
               ELSE /\ rpc' = "nocv"
                    /\ UNCHANGED <<acqLog, wake_why, cbev>>
    /\ UNCHANGED <<reactorLocals, wpc, mtx, dbev, txnVars, ddatafd, ddataevt,
                   bevs, fds, opened, relLog, envVars>>

\* control_client_start(cs): the client side's start hook
control_new_cstart ==
    /\ rpc = "new_cstart"
    /\ \E ok \in BOOLEAN :
         IF ok THEN /\ rpc' = "new_dstart"
                    /\ acquire("client")
                    /\ dbev' = NULL
               ELSE /\ rpc' = "noclient"
                    /\ UNCHANGED <<acqLog, dbev>>
    /\ UNCHANGED <<reactorLocals, wpc, mtx, wake_why, cbev, txnVars, ddatafd,
                   ddataevt, bevs, fds, opened, relLog, envVars>>

\* Variant of control_new: a failed data node start hook unwinds from nobsock
control_new_dstart_nobsock ==
    /\ rpc = "new_dstart"
    /\ \E ok \in BOOLEAN :
         IF ok THEN /\ rpc' = "co_check"
                    /\ retpc' = "new_udp"
                    /\ side' = "dnode"
                    /\ fd' = DFD
                    /\ acquire("dnode")
               ELSE /\ rpc' = "nobsock"
                    /\ UNCHANGED <<retpc, side, fd, acqLog>>
    /\ UNCHANGED <<why, args, txn_at_event, wpc, mtx, sessVars, ddatafd,
                   ddataevt, bevs, fds, opened, relLog, envVars>>

\* control_dnode_start(cs), then the call of control_conn_open for the data
\* node
control_new_dstart ==
    /\ rpc = "new_dstart"
    /\ \E ok \in BOOLEAN :
         IF ok THEN /\ rpc' = "co_check"
                    /\ retpc' = "new_udp"
                    /\ side' = "dnode"
                    /\ fd' = DFD
                    /\ acquire("dnode")
               ELSE /\ rpc' = "nodnode"
                    /\ UNCHANGED <<retpc, side, fd, acqLog>>
    /\ UNCHANGED <<why, args, txn_at_event, wpc, mtx, sessVars, ddatafd,
                   ddataevt, bevs, fds, opened, relLog, envVars>>

\* cs->ddatafd = sockutil_get_udp_socket(sample_port)
control_new_udp ==
    /\ rpc = "new_udp"
    /\ \E ok \in BOOLEAN :
         IF ok THEN /\ rpc' = "new_udpnb"
                    /\ ddatafd' = UFD
                    /\ fds' = openFd(UFD)
                    /\ acquire("udp")
               ELSE /\ rpc' = "nobsock"
                    /\ ddatafd' = NOFD
                    /\ UNCHANGED <<fds, acqLog>>
    /\ UNCHANGED <<reactorLocals, wpc, mtx, sessVars, ddataevt, bevs, opened,
                   relLog, envVars>>

\* evutil_make_socket_nonblocking(cs->ddatafd)
control_new_udpnb ==
    /\ rpc = "new_udpnb"
    /\ \E ok \in BOOLEAN : rpc' = IF ok THEN "new_evt" ELSE "nobnonblock"
    /\ UNCHANGED <<reactorLocals, wpc, mtx, sessVars, resVars, envVars>>

\* event_new / event_add for the sample socket, then the transaction
\* fields are initialised
control_new_evt ==
    /\ rpc = "new_evt"
    /\ \E ok \in BOOLEAN :
         IF ok THEN /\ rpc' = "new_thread"
                    /\ ddataevt' = TRUE
                    /\ acquire("evt")
                    /\ ctl_txns' = NULL_TXNS
                    /\ ctl_n_txns' = 0
                    /\ ctl_cur_txn' = -1
                    /\ ctl_cur_rid' = 0
               ELSE /\ rpc' = "noddataevt"
                    /\ UNCHANGED <<ddataevt, acqLog, txnVars>>
    /\ UNCHANGED <<reactorLocals, wpc, mtx, wake_why, cbev, dbev, ddatafd,
                   bevs, fds, opened, relLog, envVars>>

\* control_must_lock(cs); pthread_create(&cs->thread, ...)
control_new_thread ==
    /\ rpc = "new_thread"
    /\ mtx = "free"
    /\ mtx' = "reactor"
    /\ \E ok \in BOOLEAN :
         IF ok THEN /\ wpc' = "w_lock"
                    /\ acquire("worker")
               ELSE UNCHANGED <<wpc, acqLog>>
    /\ rpc' = "new_thread_unlock"
    /\ UNCHANGED <<reactorLocals, sessVars, ddatafd, ddataevt, bevs, fds,
                   opened, relLog, envVars>>

\* control_must_unlock(cs); if (en) goto noworker
control_new_thread_unlock ==
    /\ rpc = "new_thread_unlock"
    /\ mtx' = "free"
    /\ rpc' = IF wpc = "none" THEN "noworker" ELSE "new_ret"
    /\ UNCHANGED <<reactorLocals, wpc, sessVars, resVars, envVars>>

\* return cs
control_new_return ==
    /\ rpc = "new_ret"
    /\ rpc' = "idle"
    /\ UNCHANGED <<reactorLocals, wpc, mtx, sessVars, resVars, envVars>>

\* The unwinding labels of control_new, one label per step.
control_new_noworker ==
    /\ rpc = "noworker"
    /\ ddataevt' = FALSE
    /\ release("evt")
    /\ rpc' = "nobnonblock"
    /\ UNCHANGED <<reactorLocals, wpc, mtx, sessVars, ddatafd, bevs, fds,
                   opened, acqLog, envVars>>

control_new_nobnonblock ==
    /\ rpc \in {"noddataevt", "nobnonblock"}
    /\ fds' = closeFd(ddatafd)
    /\ release("udp")
    /\ rpc' = "nobsock"
    /\ UNCHANGED <<reactorLocals, wpc, mtx, sessVars, ddatafd, ddataevt, bevs,
                   opened, acqLog, envVars>>

\* if (cs->dbev) bufferevent_free(cs->dbev); control_dnode_stop(cs).
\* The endpoint was made BEV_OPT_CLOSE_ON_FREE: freeing it closes its fd.
control_new_nobsock ==
    /\ rpc = "nobsock"
    /\ IF dbev # NULL
         THEN /\ bevs' = [bevs EXCEPT ![dbev] = "none"]
              /\ fds' = closeFd(dbev)
              /\ relLog' = relLog \o <<"dbev", "dnode">>
         ELSE /\ relLog' = Append(relLog, "dnode")
              /\ UNCHANGED <<bevs, fds>>
    /\ rpc' = "nodnode"
    /\ UNCHANGED <<reactorLocals, wpc, mtx, sessVars, ddatafd, ddataevt,
                   opened, acqLog, envVars>>

\* control_client_stop(cs)
control_new_nodnode ==
    /\ rpc = "nodnode"
    /\ release("client")
    /\ rpc' = "noclient"
    /\ UNCHANGED <<reactorLocals, wpc, mtx, sessVars, ddatafd, ddataevt, bevs,
                   fds, opened, acqLog, envVars>>

\* pthread_cond_destroy(&cs->cv)
control_new_noclient ==
    /\ rpc = "noclient"
    /\ release("cv")
    /\ rpc' = "nocv"
    /\ UNCHANGED <<reactorLocals, wpc, mtx, sessVars, ddatafd, ddataevt, bevs,
                   fds, opened, acqLog, envVars>>

\* pthread_mutex_destroy(&cs->mtx)
control_new_nocv ==
    /\ rpc = "nocv"
    /\ mtx' = "destroyed"
    /\ release("mtx")
    /\ rpc' = "nomtx"
    /\ UNCHANGED <<reactorLocals, wpc, sessVars, ddatafd, ddataevt, bevs,
                   fds, opened, acqLog, envVars>>

\* evutil_closesocket(ddatafd): the data-node TCP socket
control_new_nodnonblock ==
    /\ rpc \in {"nomtx", "nodnonblock"}
    /\ fds' = closeFd(DFD)
    /\ release("dsock")
    /\ rpc' = "nodsock"
    /\ UNCHANGED <<reactorLocals, wpc, mtx, sessVars, ddatafd, ddataevt, bevs,
                   opened, acqLog, envVars>>

\* evconnlistener_free(cecl): LEV_OPT_CLOSE_ON_FREE closes the listener fd
control_new_nodsock ==
    /\ rpc = "nodsock"
    /\ fds' = closeFd(LFD)
    /\ release("cecl")
    /\ rpc' = "nocecl"
    /\ UNCHANGED <<reactorLocals, wpc, mtx, sessVars, ddatafd, ddataevt, bevs,
                   opened, acqLog, envVars>>

\* free(cs)
control_new_nocecl ==
    /\ rpc = "nocecl"
    /\ release("cs")
    /\ rpc' = "nocs"
    /\ UNCHANGED <<reactorLocals, wpc, mtx, sessVars, ddatafd, ddataevt, bevs,
                   fds, opened, acqLog, envVars>>

\* return NULL
control_new_nocs ==
    /\ rpc = "nocs"
    /\ rpc' = "new_null"
    /\ UNCHANGED <<reactorLocals, wpc, mtx, sessVars, resVars, envVars>>

control_new ==
    \/ control_new_malloc \/ control_new_listener \/ control_new_connect
    \/ control_new_nonblock \/ control_new_mtx \/ control_new_cv
    \/ control_new_cstart \/ control_new_dstart \/ control_new_udp
    \/ control_new_udpnb \/ control_new_evt \/ control_new_thread
    \/ control_new_thread_unlock \/ control_new_return
    \/ control_new_noworker \/ control_new_nobnonblock \/ control_new_nobsock
    \/ control_new_nodnode \/ control_new_noclient \/ control_new_nocv
    \/ control_new_nodnonblock \/ control_new_nodsock \/ control_new_nocecl
    \/ control_new_nocs


\* ----------------------------------------------------- control_conn_open
\* *bevp = v
setSlot(s, v) ==
    IF s = "client" THEN cbev' = v /\ UNCHANGED dbev
                    ELSE dbev' = v /\ UNCHANGED cbev

\* return from control_conn_open / control_must_wake to the caller; the
\* callee's arguments are gone
return ==
    /\ rpc' = retpc
    /\ retpc' = "none"
    /\ side' = "none"
    /\ fd' = NOFD
    /\ why' = CONTROL_WHY_NONE

\* client_ecl: the listener accepted an inbound client connection
client_ecl ==
    /\ rpc = "idle"
    /\ ClientFds \ fds.open # {}
    /\ LET f == CHOOSE x \in ClientFds \ fds.open :
                  \A y \in ClientFds \ fds.open : x <= y IN
         /\ fd' = f
         /\ fds' = openFd(f)
    /\ rpc' = "co_check"
    /\ retpc' = "idle"
    /\ side' = "client"
    /\ UNCHANGED <<why, args, txn_at_event, wpc, mtx, sessVars, ddatafd,
                   ddataevt, bevs, opened, acqLog, relLog, envVars>>

\* refuse_connection(fd, ...): evutil_closesocket(fd)
refuse_connection == fds' = closeFd(fd)

\* Variant of the check: the slot is not tested, the newcomer replaces the
\* attached endpoint
control_conn_open_check_replace ==
    /\ rpc = "co_check"
    /\ rpc' = "co_newbev"
    /\ UNCHANGED <<reactorLocals, wpc, mtx, sessVars, resVars, envVars>>

\* if (*bevp) { refuse_connection(fd, log_who, "another is ongoing"); return; }
control_conn_open_check ==
    /\ rpc = "co_check"
    /\ IF slot(side) # NULL
         THEN /\ refuse_connection
              /\ return
         ELSE /\ rpc' = "co_newbev"
              /\ UNCHANGED <<fds, retpc, side, fd, why>>
    /\ UNCHANGED <<args, txn_at_event, wpc, mtx, sessVars, ddatafd, ddataevt, bevs, opened,
                   acqLog, relLog, envVars>>

\* bev = control_new_bev(...): the endpoint comes back disabled.
\* bufferevent_disable(bev, bufferevent_get_enabled(bev)) runs before the
\* null test: with bev == NULL libevent loads through address 0 and the
\* process faults; the null test after it is never reached with bev == NULL.
control_conn_open_newbev ==
    /\ rpc = "co_newbev"
    /\ \E ok \in BOOLEAN :
         /\ bevs' = IF ok THEN [bevs EXCEPT ![fd] = "disabled"] ELSE bevs
         /\ acqLog' = IF ok /\ side = "dnode"
                        THEN Append(acqLog, "dbev") ELSE acqLog
         /\ rpc' = IF ok THEN "co_lock" ELSE "crashed"
    /\ UNCHANGED <<reactorLocals, wpc, mtx, sessVars, ddatafd, ddataevt, fds,
                   opened, relLog, envVars>>

\* control_must_lock(cs)
control_conn_open_lock ==
    /\ rpc = "co_lock"
    /\ mtx = "free"
    /\ mtx' = "reactor"
    /\ rpc' = "co_set"
    /\ UNCHANGED <<reactorLocals, wpc, sessVars, resVars, envVars>>

\* *bevp = bev
control_conn_open_set ==
    /\ rpc = "co_set"
    /\ setSlot(side, fd)
    /\ rpc' = "co_unlock"
    /\ UNCHANGED <<reactorLocals, wpc, mtx, wake_why, txnVars, resVars, envVars>>

\* control_must_unlock(cs)
control_conn_open_unlock ==
    /\ rpc = "co_unlock"
    /\ mtx' = "free"
    /\ rpc' = "co_open"
    /\ UNCHANGED <<reactorLocals, wpc, sessVars, resVars, envVars>>

\* on_open(cs, fd): control_client_open / control_dnode_open; a null
\* cs_open hook returns 0
control_conn_open_hook ==
    /\ rpc = "co_open"
    /\ \E r \in {0, -1} :
         /\ rpc' = IF r = -1 THEN "co_refuse" ELSE "co_enable"
         /\ opened' = [opened EXCEPT ![side] = (r = 0)]
    /\ UNCHANGED <<reactorLocals, wpc, mtx, sessVars, ddatafd, ddataevt, bevs,
                   fds, acqLog, relLog, envVars>>

\* refuse_connection(fd, log_who, NULL)
control_conn_open_refuse ==
    /\ rpc = "co_refuse"
    /\ refuse_connection
    /\ relLog' = IF side = "dnode" THEN Append(relLog, "dsock") ELSE relLog
    /\ rpc' = "co_free"
    /\ UNCHANGED <<reactorLocals, wpc, mtx, sessVars, ddatafd, ddataevt, bevs,
                   opened, acqLog, envVars>>

\* Variant of the failure branch: the endpoint is not freed
control_conn_open_free_leak ==
    /\ rpc = "co_free"
    /\ rpc' = "co_clear"
    /\ UNCHANGED <<reactorLocals, wpc, mtx, sessVars, resVars, envVars>>

\* bufferevent_free(bev): BEV_OPT_CLOSE_ON_FREE closes the fd as well
control_conn_open_free ==
    /\ rpc = "co_free"
    /\ bevs' = [bevs EXCEPT ![fd] = "none"]
    /\ fds' = closeFd(fd)
    /\ relLog' = IF side = "dnode" THEN Append(relLog, "dbev") ELSE relLog
    /\ rpc' = "co_clear"
    /\ UNCHANGED <<reactorLocals, wpc, mtx, sessVars, ddatafd, ddataevt,
                   opened, acqLog, envVars>>

\* *bevp = NULL: the mutex is not taken here
control_conn_open_clear ==
    /\ rpc = "co_clear"
    /\ setSlot(side, NULL)
    /\ return
    /\ UNCHANGED <<args, txn_at_event, wpc, mtx, wake_why, txnVars, resVars, envVars>>

\* bufferevent_enable(bev, EV_READ | EV_WRITE)
control_conn_open_enable ==
    /\ rpc = "co_enable"
    /\ bevs' = [bevs EXCEPT ![fd] = "enabled"]
    /\ return
    /\ UNCHANGED <<args, txn_at_event, wpc, mtx, sessVars, ddatafd, ddataevt, fds, opened,
                   acqLog, relLog, envVars>>

control_conn_open ==
    \/ control_conn_open_check \/ control_conn_open_newbev
    \/ control_conn_open_lock \/ control_conn_open_set
    \/ control_conn_open_unlock \/ control_conn_open_hook
    \/ control_conn_open_refuse \/ control_conn_open_free
    \/ control_conn_open_clear \/ control_conn_open_enable


\* ---------------------------------------------- control_set_transactions
\* The assertion of control_set_transactions
control_set_transactions_assert(txns, n_txns) ==
    \/ (ctl_txns = NULL_TXNS /\ ctl_cur_txn = -1 /\ ctl_n_txns = 0)
    \/ (txns = NULL_TXNS /\ n_txns = 0)

\* Variant of the loop: the counter is wider than 16 bits
stamp_nowrap(list, i, n_txns, rid) ==
    <<[k \in DOMAIN list |-> IF k >= i /\ k <= n_txns THEN rid + (k - i)
                                                      ELSE list[k]],
      rid + (n_txns - i + 1)>>

\* for (i = 0; i < n_txns; i++) ctxn_req(&txns[i])->r_id = cs->ctl_cur_rid++;
\* from index i (1-based here) on; the result is <<list, ctl_cur_rid>>
RECURSIVE stamp(_, _, _, _)
stamp(list, i, n_txns, rid) ==
    IF i > n_txns THEN <<list, rid>>
    ELSE stamp([list EXCEPT ![i] = rid], i + 1, n_txns, (rid + 1) % RidMod)

\* Variant of the body: the counter is read but never stored back
\* (r_id = cs->ctl_cur_rid without the ++)
control_set_transactions_body_norid(txns, n_txns) ==
    /\ ctl_n_txns' = n_txns
    /\ ctl_txns' = IF n_txns = 0 THEN txns
                   ELSE <<[i \in 1..n_txns |-> ctl_cur_rid]>>
    /\ ctl_cur_txn' = IF n_txns = 0 THEN -1 ELSE 0
    /\ inflight' = {} /\ responded' = {}
    /\ UNCHANGED ctl_cur_rid

\* Variant of the body: the cursor starts at the last request of the list
control_set_transactions_body_last(txns, n_txns) ==
    /\ ctl_n_txns' = n_txns
    /\ inflight' = {} /\ responded' = {}
    /\ IF n_txns = 0
         THEN /\ ctl_txns' = txns
              /\ ctl_cur_txn' = -1
              /\ UNCHANGED ctl_cur_rid
         ELSE LET st == stamp(txns[1], 1, n_txns, ctl_cur_rid) IN
              /\ ctl_txns' = <<st[1]>>
              /\ ctl_cur_txn' = n_txns - 1
              /\ ctl_cur_rid' = st[2]

\* The body of control_set_transactions after the assertion, with the
\* session mutex held. The old list is freed and replaced, and with it what
\* was recorded per transaction.
control_set_transactions_body(txns, n_txns) ==
    /\ ctl_n_txns' = n_txns
    /\ inflight' = {} /\ responded' = {}
    /\ IF n_txns = 0
         THEN /\ ctl_txns' = txns
              /\ ctl_cur_txn' = -1
              /\ UNCHANGED ctl_cur_rid
         ELSE LET st == stamp(txns[1], 1, n_txns, ctl_cur_rid) IN
              /\ ctl_txns' = <<st[1]>>
              /\ ctl_cur_txn' = 0
              /\ ctl_cur_rid' = st[2]

\* control_clear_transactions(cs, have_lock) with the mutex held
control_clear_transactions == control_set_transactions_body(NULL_TXNS, 0)

\* A list of n requests that carry no id yet
newList(n) == <<[i \in 1..n |-> -1]>>

\* Position of the counter in the window of 2 * MaxRid + 1 values around
\* its zero: RidMod - MaxRid is position 0, 0 is position MaxRid
ridPos == (ctl_cur_rid + MaxRid) % RidMod

\* The argument lists a hook passes: clear, install n requests (n = 0: a
\* non-null list of no requests). Installs stop once the counter would
\* leave the window.
SetArgs ==
    {<<NULL_TXNS, 0>>} \cup
    {<<newList(n), n>> : n \in {m \in 0..MaxRid : ridPos + m <= 2 * MaxRid}}

\* if (!have_lock) control_must_lock(cs)
control_set_transactions_lock ==
    /\ rpc = "st_lock"
    /\ mtx = "free"
    /\ mtx' = "reactor"
    /\ rpc' = "st_body"
    /\ UNCHANGED <<reactorLocals, wpc, sessVars, resVars, envVars>>

\* Variant of the set: the assertion is not evaluated
control_set_transactions_set_noassert ==
    /\ rpc = "st_body"
    /\ control_set_transactions_body(args[1], args[2])
    /\ rpc' = "st_unlock"
    /\ UNCHANGED <<reactorLocals, wpc, mtx, wake_why, cbev, dbev, resVars,
                   ops, codecVars>>

\* assert(...); free the old list; install; stamp
control_set_transactions_set ==
    /\ rpc = "st_body"
    /\ IF control_set_transactions_assert(args[1], args[2])
         THEN /\ control_set_transactions_body(args[1], args[2])
              /\ rpc' = "st_unlock"
         ELSE /\ rpc' = "abort"
              /\ UNCHANGED <<txnVars, hookVars>>
    /\ UNCHANGED <<reactorLocals, wpc, mtx, wake_why, cbev, dbev, resVars,
                   ops, codecVars>>

\* Variant of control_set_transactions: the mutex is not released at done
control_set_transactions_unlock_missing ==
    /\ rpc = "st_unlock"
    /\ rpc' = "rd_ret"
    /\ args' = <<NULL_TXNS, 0>>
    /\ UNCHANGED <<retpc, side, fd, why, txn_at_event, wpc, mtx, sessVars,
                   resVars, envVars>>

\* if (!have_lock) control_must_unlock(cs)
control_set_transactions_unlock ==
    /\ rpc = "st_unlock"
    /\ mtx' = "free"
    /\ rpc' = "rd_ret"
    /\ args' = <<NULL_TXNS, 0>>
    /\ UNCHANGED <<retpc, side, fd, why, txn_at_event, wpc, sessVars, resVars,
                   envVars>>

control_set_transactions ==
    \/ control_set_transactions_lock \/ control_set_transactions_set
    \/ control_set_transactions_unlock

\* ------------------------------------------------------ reader dispatch
\* control_client_bev_read / control_dnode_bev_read: the side's endpoint is
\* readable
control_bev_read(s) ==
    /\ rpc = "idle"
    /\ slot(s) # NULL
    /\ bevs[slot(s)] = "enabled"
    /\ side' = s
    /\ rpc' = "rd_hook"
    /\ UNCHANGED <<retpc, fd, why, args, txn_at_event, wpc, mtx, sessVars,
                   resVars, envVars>>

\* reader(cs), first part: the side's cs_read hook parses what arrived. It
\* may enqueue or clear transactions (have_lock = 0); on the data node side
\* what arrived may be the response to a request in flight, which is then
\* recorded with its transaction; anything else is dropped.
cs_read_hook ==
    /\ rpc = "rd_hook"
    /\ \E act \in {"set", "response", "drop"} :
         /\ act = "response" => (side = "dnode" /\ inflight # {})
         /\ IF act = "set"
              THEN \E a \in SetArgs :
                     /\ args' = a
                     /\ rpc' = "st_lock"
                     /\ UNCHANGED hookVars
              ELSE /\ rpc' = "rd_ret"
                   /\ UNCHANGED args
                   /\ IF act = "response"
                        THEN \E i \in inflight :
                               /\ inflight' = inflight \ {i}
                               /\ responded' = responded \cup {i}
                        ELSE UNCHANGED hookVars
    /\ UNCHANGED <<retpc, side, fd, why, txn_at_event, wpc, mtx, sessVars,
                   resVars, ops, codecVars>>

\* reader(cs) returns read_why_wake; switch (read_why_wake)
control_bev_reader ==
    /\ rpc = "rd_ret"
    /\ \E w \in SUBSET WhyBits :
         /\ why' = w
         /\ IF w = CONTROL_WHY_NONE THEN rpc' = "idle" /\ UNCHANGED retpc
            ELSE IF w = {"EXIT"} THEN rpc' = "fatal" /\ UNCHANGED retpc
            ELSE rpc' = "wk_lock" /\ retpc' = "idle"
    /\ side' = "none"
    /\ UNCHANGED <<fd, args, txn_at_event, wpc, mtx, sessVars, resVars, envVars>>

\* ---------------------------------------------------- control_must_wake
\* control_set_wake: control_must_lock(cs)
control_set_wake_lock ==
    /\ rpc = "wk_lock"
    /\ mtx = "free"
    /\ mtx' = "reactor"
    /\ rpc' = "wk_set"
    /\ UNCHANGED <<reactorLocals, wpc, sessVars, resVars, envVars>>

\* Variant of control_set_wake: cs->wake_why = why
control_set_wake_assign ==
    /\ rpc = "wk_set"
    /\ wake_why' = why
    /\ rpc' = "wk_unlock"
    /\ UNCHANGED <<reactorLocals, wpc, mtx, cbev, dbev, txnVars, resVars,
                   envVars>>

\* cs->wake_why |= why
control_set_wake ==
    /\ rpc = "wk_set"
    /\ wake_why' = wake_why \cup why
    /\ rpc' = "wk_unlock"
    /\ UNCHANGED <<reactorLocals, wpc, mtx, cbev, dbev, txnVars, resVars,
                   envVars>>

\* control_must_unlock(cs)
control_set_wake_unlock ==
    /\ rpc = "wk_unlock"
    /\ mtx' = "free"
    /\ rpc' = "wk_signal"
    /\ UNCHANGED <<reactorLocals, wpc, sessVars, resVars, envVars>>

\* Variant of control_must_wake: the bit is set but the condition variable
\* is never signalled
control_must_signal_lost ==
    /\ rpc = "wk_signal"
    /\ return
    /\ UNCHANGED <<args, txn_at_event, wpc, mtx, sessVars, resVars, envVars>>

\* control_must_signal(cs): pthread_cond_signal wakes the worker if it is
\* blocked in pthread_cond_wait; the worker then has to take the mutex
control_must_signal ==
    /\ rpc = "wk_signal"
    /\ wpc' = IF wpc = "w_wait" THEN "w_rewake" ELSE wpc
    /\ return
    /\ UNCHANGED <<args, txn_at_event, mtx, sessVars, resVars, envVars>>

control_must_wake ==
    \/ control_set_wake_lock \/ control_set_wake \/ control_set_wake_unlock
    \/ control_must_signal


\* ------------------------------------------------------ connection close
\* control_client_event / control_dnode_event -> control_bevt_handler:
\* EOF or ERROR calls on_close, any other event is logged only
control_bevt_handler(s) ==
    /\ rpc = "idle"
    /\ slot(s) # NULL
    /\ bevs[slot(s)] = "enabled"
    /\ \E events \in {"EOF", "ERROR", "TIMEOUT"} :
         IF events \in {"EOF", "ERROR"}
           THEN rpc' = "cl_lock" /\ side' = s /\ txn_at_event' = ctl_cur_txn
           ELSE UNCHANGED <<rpc, side, txn_at_event>>
    /\ UNCHANGED <<retpc, fd, why, args, wpc, mtx, sessVars, resVars, envVars>>

\* control_client_close / control_dnode_close: control_must_lock(cs)
control_close_lock ==
    /\ rpc = "cl_lock"
    /\ mtx = "free"
    /\ mtx' = "reactor"
    /\ rpc' = "cl_free"
    /\ UNCHANGED <<reactorLocals, wpc, sessVars, resVars, envVars>>

\* Variant of the close: the transactions are left installed
control_close_free_keep ==
    /\ rpc = "cl_free"
    /\ slot(side) # NULL
    /\ bevs' = [bevs EXCEPT ![slot(side)] = "none"]
    /\ fds' = closeFd(slot(side))
    /\ opened' = [opened EXCEPT ![side] = FALSE]
    /\ setSlot(side, NULL)
    /\ rpc' = "cl_unlock"
    /\ UNCHANGED <<reactorLocals, wpc, mtx, wake_why, txnVars, ddatafd,
                   ddataevt, acqLog, relLog, envVars>>

\* assert(*bevp); bufferevent_free(*bevp); *bevp = NULL;
\* if (cs->ctl_txns) control_clear_transactions(cs, 1);
control_close_free ==
    /\ rpc = "cl_free"
    /\ IF slot(side) = NULL
         THEN /\ rpc' = "abort"
              /\ UNCHANGED <<sessVars, bevs, fds, opened, hookVars>>
         ELSE /\ bevs' = [bevs EXCEPT ![slot(side)] = "none"]
              /\ fds' = closeFd(slot(side))
              /\ opened' = [opened EXCEPT ![side] = FALSE]
              /\ setSlot(side, NULL)
              /\ IF ctl_txns # NULL_TXNS
                   THEN control_clear_transactions
                   ELSE UNCHANGED <<txnVars, hookVars>>
              /\ rpc' = "cl_unlock"
              /\ UNCHANGED wake_why
    /\ UNCHANGED <<reactorLocals, wpc, mtx, ddatafd, ddataevt, acqLog, relLog,
                   ops, codecVars>>

\* Variant of the close: the mutex is still held when the close hook runs
control_close_unlock_late ==
    /\ rpc = "cl_unlock"
    /\ rpc' = "cl_hook"
    /\ UNCHANGED <<reactorLocals, wpc, mtx, sessVars, resVars, envVars>>

\* control_must_unlock(cs)
control_close_unlock ==
    /\ rpc = "cl_unlock"
    /\ mtx' = "free"
    /\ rpc' = "cl_hook"
    /\ UNCHANGED <<reactorLocals, wpc, sessVars, resVars, envVars>>

\* Variant of the close: a dropped connection ends the process
control_close_hook_fatal ==
    /\ rpc = "cl_hook"
    /\ rpc' = "fatal"
    /\ side' = "none"
    /\ txn_at_event' = -1
    /\ UNCHANGED <<retpc, fd, why, args, wpc, mtx, sessVars, resVars, envVars>>

\* the side's cs_close hook, then control_bevt_handler returns
control_close_hook ==
    /\ rpc = "cl_hook"
    /\ rpc' = "idle"
    /\ side' = "none"
    /\ txn_at_event' = -1
    /\ UNCHANGED <<retpc, fd, why, args, wpc, mtx, sessVars, resVars, envVars>>

control_close ==
    \/ control_close_lock \/ control_close_free \/ control_close_unlock
    \/ control_close_hook

\* ---------------------------------------------------- control_worker_main
\* control_must_lock(cs) at the top of the loop
control_worker_lock ==
    /\ wpc = "w_lock"
    /\ mtx = "free"
    /\ mtx' = "worker"
    /\ wpc' = "w_check"
    /\ UNCHANGED <<rpc, reactorLocals, sessVars, resVars, envVars>>

\* Variant of the test: EXIT ends the worker only when no other bit is
\* asserted (cs->wake_why == CONTROL_WHY_EXIT)
control_worker_check_exitalone ==
    /\ wpc = "w_check"
    /\ IF wake_why = CONTROL_WHY_NONE
         THEN /\ mtx' = "free"
              /\ wpc' = "w_wait"
         ELSE /\ wpc' = IF wake_why = {"EXIT"} THEN "w_exit" ELSE "w_client"
              /\ UNCHANGED mtx
    /\ UNCHANGED <<rpc, reactorLocals, sessVars, resVars, envVars>>

\* while (cs->wake_why == CONTROL_WHY_NONE) control_must_cond_wait(cs);
\* pthread_cond_wait releases the mutex and blocks in one step.
\* if (cs->wake_why & CONTROL_WHY_EXIT) goes on to unlock and exit.
control_worker_check ==
    /\ wpc = "w_check"
    /\ IF wake_why = CONTROL_WHY_NONE
         THEN /\ mtx' = "free"
              /\ wpc' = "w_wait"
         ELSE /\ wpc' = IF "EXIT" \in wake_why THEN "w_exit" ELSE "w_client"
              /\ UNCHANGED mtx
    /\ UNCHANGED <<rpc, reactorLocals, sessVars, resVars, envVars>>

\* pthread_cond_wait returning: the signalled worker takes the mutex again
control_worker_rewake ==
    /\ wpc = "w_rewake"
    /\ mtx = "free"
    /\ mtx' = "worker"
    /\ wpc' = "w_check"
    /\ UNCHANGED <<rpc, reactorLocals, sessVars, resVars, envVars>>

\* control_must_unlock(cs); pthread_exit(NULL)
control_worker_exit ==
    /\ wpc = "w_exit"
    /\ mtx' = "free"
    /\ wpc' = "exited"
    /\ UNCHANGED <<rpc, reactorLocals, sessVars, resVars, envVars>>

\* The current transaction's response has arrived and another transaction
\* follows it in the list
canAdvance ==
    /\ ctl_cur_txn >= 0
    /\ ctl_cur_txn \in responded
    /\ ctl_cur_txn + 1 < ctl_n_txns

\* The client side's cs_thread hook: it clears the bits it has consumed and
\* may ask for data-node work; it may clear the transactions (have_lock = 1)
\* or, when the current transaction has been answered and is not the last,
\* move ctl_cur_txn to the next one and ask for data-node work
cs_thread_client ==
    \E add \in SUBSET {"DNODE_TXN"}, act \in {"keep", "clear", "advance"} :
      /\ act = "advance" => canAdvance
      /\ wake_why' = (wake_why \ ClientBits) \cup
                        (IF act = "advance" THEN {"DNODE_TXN"} ELSE add)
      /\ IF act = "clear" THEN control_clear_transactions
         ELSE IF act = "advance"
           THEN /\ ctl_cur_txn' = ctl_cur_txn + 1
                /\ UNCHANGED <<ctl_txns, ctl_n_txns, ctl_cur_rid, hookVars>>
           ELSE UNCHANGED <<txnVars, hookVars>>

\* The current transaction's request has not been written yet and the data
\* node endpoint is attached
canIssue ==
    /\ ctl_cur_txn >= 0
    /\ ctl_cur_txn \notin inflight \cup responded
    /\ dbev # NULL

\* The data-node side's cs_thread hook: it writes the current transaction's
\* request to the data node if that has not been done, and clears the bit
\* it has consumed
cs_thread_dnode ==
    /\ wake_why' = wake_why \ {"DNODE_TXN"}
    /\ inflight' = IF canIssue THEN inflight \cup {ctl_cur_txn} ELSE inflight
    /\ UNCHANGED <<txnVars, responded>>

\* if (cs->wake_why & (CLIENT_CMD | CLIENT_RES)) control_client_thread(cs);
\* a null cs_thread is a no-op
control_worker_client ==
    /\ wpc = "w_client"
    /\ IF wake_why \cap ClientBits # {} /\ ops["client"]
         THEN cs_thread_client
         ELSE UNCHANGED <<wake_why, txnVars, hookVars>>
    /\ wpc' = "w_dnode"
    /\ UNCHANGED <<rpc, reactorLocals, mtx, cbev, dbev, resVars, ops, codecVars>>

\* if (cs->wake_why & CONTROL_WHY_DNODE_TXN) control_dnode_thread(cs);
control_worker_dnode ==
    /\ wpc = "w_dnode"
    /\ IF "DNODE_TXN" \in wake_why /\ ops["dnode"]
         THEN cs_thread_dnode
         ELSE UNCHANGED <<wake_why, txnVars, hookVars>>
    /\ wpc' = "w_unlock"
    /\ UNCHANGED <<rpc, reactorLocals, mtx, cbev, dbev, resVars, ops, codecVars>>

\* control_must_unlock(cs) at the bottom of the loop
control_worker_unlock ==
    /\ wpc = "w_unlock"
    /\ mtx' = "free"
    /\ wpc' = "w_lock"
    /\ UNCHANGED <<rpc, reactorLocals, sessVars, resVars, envVars>>

control_worker_main ==
    /\ ~Dead
    /\ \/ control_worker_lock \/ control_worker_check \/ control_worker_rewake
       \/ control_worker_exit \/ control_worker_client \/ control_worker_dnode
       \/ control_worker_unlock


\* ---------------------------------------------------------- control_free
\* control_must_wake(cs, CONTROL_WHY_EXIT)
control_free_wake ==
    /\ rpc = "idle"
    /\ why' = {"EXIT"}
    /\ rpc' = "wk_lock"
    /\ retpc' = "fr_join"
    /\ UNCHANGED <<side, fd, args, txn_at_event, wpc, mtx, sessVars, resVars,
                   envVars>>

\* Variant of control_free: the worker is not joined before the release
control_free_join_nowait ==
    /\ rpc = "fr_join"
    /\ rpc' = "fr_release"
    /\ UNCHANGED <<reactorLocals, wpc, mtx, sessVars, resVars, envVars>>

\* control_must_join(cs, NULL): pthread_join returns once the worker has
\* terminated
control_free_join ==
    /\ rpc = "fr_join"
    /\ wpc = "exited"
    /\ rpc' = "fr_release"
    /\ UNCHANGED <<reactorLocals, wpc, mtx, sessVars, resVars, envVars>>

\* What control_free releases after the join, in the order of its
\* statements (cs->cdatafd is -1 throughout, so that socket is never closed):
\* event_free(ddataevt), close(ddatafd), control_dnode_stop,
\* control_client_stop, pthread_cond_destroy, pthread_mutex_destroy,
\* bufferevent_free(dbev), evconnlistener_free(cecl), bufferevent_free(cbev),
\* free(ctl_txns), free(cs)
control_free_order ==
    (IF ddataevt THEN <<"evt">> ELSE <<>>)
    \o (IF ddatafd # NOFD THEN <<"udp">> ELSE <<>>)
    \o <<"dnode", "client", "cv", "mtx">>
    \o (IF dbev # NULL THEN <<"dbev">> ELSE <<>>)
    \o <<"cecl">>
    \o (IF cbev # NULL THEN <<"cbev">> ELSE <<>>)
    \o (IF ctl_txns # NULL_TXNS THEN <<"txns">> ELSE <<>>)
    \o <<"cs">>

\* The descriptor a release call closes: the endpoints and the listener are
\* close-on-free
fdOf(r) ==
    CASE r = "udp" -> ddatafd
      [] r = "dbev" -> dbev
      [] r = "cbev" -> cbev
      [] r = "cecl" -> LFD
      [] OTHER -> NOFD

\* The descriptor table after the release calls rs[i..]
RECURSIVE closeAll(_, _, _)
closeAll(t, rs, i) ==
    IF i > Len(rs) THEN t
    ELSE closeAll(IF fdOf(rs[i]) = NOFD THEN t ELSE closeIn(t, fdOf(rs[i])),
                  rs, i + 1)

\* control_free from the statement after the join to free(cs)
control_free_release ==
    /\ rpc = "fr_release"
    /\ relLog' = relLog \o control_free_order
    /\ fds' = closeAll(fds, control_free_order, 1)
    /\ bevs' = [f \in Fds |-> "none"]
    /\ ddataevt' = FALSE
    /\ mtx' = "destroyed"
    /\ rpc' = "freed"
    /\ UNCHANGED <<reactorLocals, wpc, sessVars, ddatafd, opened, acqLog,
                   envVars>>

control_free ==
    \/ control_free_wake \/ control_free_join \/ control_free_release

\* ------------------------------------------------------------ the system
\* The reactor thread: the caller of control_new and control_free, and the
\* event loop that runs the callbacks one at a time
Reactor ==
    \/ control_new
    \/ control_conn_open
    \/ client_ecl
    \/ \E s \in Sides : control_bev_read(s)
    \/ cs_read_hook
    \/ control_bev_reader
    \/ control_set_transactions
    \/ control_must_wake
    \/ \E s \in Sides : control_bevt_handler(s)
    \/ control_close
    \/ control_free

Next == Reactor \/ control_worker_main

Spec == Init /\ [][Next]_vars

\* A session that has been serving for a while: control_new has returned,
\* no client is attached, no list is installed, and the counter has been
\* stamped up to just below its largest value.
Serving ==
    /\ rpc = "idle" /\ retpc = "none" /\ side = "none" /\ fd = NOFD
    /\ why = CONTROL_WHY_NONE /\ args = <<NULL_TXNS, 0>> /\ txn_at_event = -1
    /\ wpc = "w_lock" /\ mtx = "free"
    /\ wake_why = CONTROL_WHY_NONE /\ cbev = NULL /\ dbev = DFD
    /\ ctl_txns = NULL_TXNS /\ ctl_n_txns = 0 /\ ctl_cur_txn = -1
    /\ ctl_cur_rid \in (RidMod - MaxRid)..(RidMod - 1)
    /\ ddatafd = UFD /\ ddataevt = TRUE
    /\ bevs = [f \in Fds |-> IF f = DFD THEN "enabled" ELSE "none"]
    /\ fds = [open |-> {DFD, UFD, LFD}, bad |-> {}]
    /\ opened = [s \in Sides |-> s = "dnode"]
    /\ acqLog = <<"cs", "cecl", "dsock", "mtx", "cv", "client", "dnode",
                  "dbev", "udp", "evt", "worker">>
    /\ relLog = <<>>
    /\ ops = [s \in Sides |-> TRUE]
    /\ inflight = {} /\ responded = {}

\* The session from its creation, the malloc'ed counter holding anything
\* until control_new assigns it, or from a state in which it is serving
RidInit ==
    /\ \/ SessionFields /\ ctl_cur_rid \in {0, RidMod - 1}
       \/ Serving
    /\ CodecOff

RidSpec == RidInit /\ [][Next]_vars

\* One packet from a sending host to a receiving host; the session is not
\* created
CodecInit ==
    /\ SessionInit
    /\ ops = [s \in Sides |-> TRUE]
    /\ cpc = "start"
    /\ sle \in BOOLEAN /\ rle \in BOOLEAN
    /\ orig \in SenderPackets(sle) /\ spkt = orig
    /\ snd_n = 0 /\ wire = <<>>
    /\ packtype \in {0} \cup KnownTypes /\ packtype0 = packtype
    /\ rbuf \in RecvBuffers(rle, packtype, sle, orig) /\ rbuf0 = rbuf
    /\ rcv_n = 0 /\ ret = 0 /\ errno = "none"
    /\ sockerr \in {"none", "EAGAIN"}

sessionVars == <<rpc, reactorLocals, wpc, mtx, sessVars, resVars, ops, hookVars>>

CodecNext ==
    \/ raw_packet_send /\ UNCHANGED sessionVars
    \/ tamper /\ UNCHANGED sessionVars
    \/ raw_packet_recv /\ UNCHANGED sessionVars

CodecSpec == CodecInit /\ [][CodecNext]_vars


\* ================================================================ claims
tableEmpty == ctl_txns = NULL_TXNS /\ ctl_n_txns = 0 /\ ctl_cur_txn = -1

\* C1: when control_set_transactions installs n > 0 requests on an empty
\* table with ctl_cur_rid = k, request i (0 <= i < n) gets r_id = k + i,
\* ctl_cur_rid becomes k + n, ctl_n_txns = n and ctl_cur_txn = 0; with
\* n = 0, ctl_cur_txn becomes -1, no request is stamped and ctl_cur_rid
\* stays k.
C1_Install ==
    [][(rpc = "st_body" /\ rpc' = "st_unlock") =>
         LET n == args[2]
             k == ctl_cur_rid
         IN  IF n > 0
               THEN /\ tableEmpty
                    /\ ctl_txns' = <<[i \in 1..n |-> k + (i - 1)]>>
                    /\ ctl_cur_rid' = k + n
                    /\ ctl_n_txns' = n
                    /\ ctl_cur_txn' = 0
               ELSE /\ ctl_cur_txn' = -1
                    /\ ctl_n_txns' = 0
                    /\ ctl_txns' = args[1]
                    /\ ctl_cur_rid' = k]_vars

\* C1 witness: an install of two requests that started from k = 0, and
\* one request stamped from k > 0
C1_Witness ==
    /\ rpc = "st_unlock"
    /\ ctl_n_txns = 1
    /\ ctl_txns = <<<<1>>>>
    /\ ctl_cur_rid = 2

\* C2: for either side, when EOF or ERROR arrives while transactions are
\* installed (ctl_cur_txn >= 0), then from the end of the close's critical
\* section until the close handling returns the side's slot is null and
\* the table is empty.
C2_CloseClears ==
    (rpc \in {"cl_unlock", "cl_hook"} /\ txn_at_event >= 0) =>
        (slot(side) = NULL /\ tableEmpty)

\* C2 witness: the close hook of the data-node side is running for an
\* event that arrived with a transaction list installed
C2_Witness ==
    /\ rpc = "cl_hook"
    /\ side = "dnode"
    /\ txn_at_event >= 0

\* C3: a client connection that arrives while cs->cbev is attached is closed
\* at once; cbev, wake_why, the transaction fields and the endpoints are
\* unchanged and the client open hook is not called (control_conn_open
\* returns from its first test).
C3_SecondClientRefused ==
    [][(rpc = "co_check" /\ side = "client" /\ cbev # NULL /\ rpc' # rpc) =>
         /\ rpc' = "idle"
         /\ fds'.open = fds.open \ {fd}
         /\ fds'.bad = fds.bad
         /\ cbev' = cbev
         /\ cbev \in fds'.open
         /\ bevs' = bevs
         /\ opened' = opened
         /\ wake_why' = wake_why
         /\ txnVars' = txnVars]_vars

\* C3 witness: a second client connection was accepted while the first is
\* attached and enabled
C3_Witness ==
    /\ rpc = "co_check"
    /\ side = "client"
    /\ cbev # NULL
    /\ fd # cbev
    /\ bevs[cbev] = "enabled"


\* C4 (as claimed): when control_new returns null, every resource it
\* acquired has been released, the release calls are the acquisitions in
\* reverse order, no descriptor is left open, and no worker exists.
C4_UnwindReverse ==
    rpc = "new_null" =>
        /\ relLog = Reverse(acqLog)
        /\ fds.open = {}
        /\ wpc = "none"

\* C5 (as claimed): when control_new returns a session, the data-node
\* endpoint is attached: cs->dbev is set, the data-node open hook succeeded
\* and the endpoint is enabled.
C5_DnodeAttached ==
    rpc = "new_ret" =>
        /\ dbev # NULL
        /\ opened["dnode"]
        /\ bevs[DFD] = "enabled"

\* C6: the worker enters pthread_cond_wait only with wake_why == NONE, and
\* whenever it is blocked there with wake_why != NONE the reactor is between
\* its store to wake_why and its pthread_cond_signal, so the signal is still
\* to come.
C6_NoLostWakeup ==
    /\ [][(wpc' = "w_wait" /\ wpc # "w_wait") =>
            (wake_why = CONTROL_WHY_NONE /\ mtx = "worker")]_vars
    /\ []((wpc = "w_wait" /\ wake_why # CONTROL_WHY_NONE) =>
            rpc \in {"wk_unlock", "wk_signal"})

\* C6 witness: the worker is blocked on the condition variable while a bit
\* is asserted and the signal has not been sent yet
C6_Witness ==
    /\ wpc = "w_wait"
    /\ wake_why # CONTROL_WHY_NONE
    /\ rpc = "wk_signal"


\* Fairness: the worker thread keeps running when it can take a step, and
\* the reactor thread is not starved of the mutex by a worker that takes
\* and releases it over and over.
FairSpec == Spec /\ WF_vars(control_worker_main) /\ SF_vars(Reactor)

\* C7: control_free posts EXIT, the worker then terminates and the join
\* completes; nothing of the session is released, and no stop hook runs,
\* before the worker has terminated.
C7_FreeJoins ==
    /\ [](rpc \in {"fr_release", "freed"} => wpc = "exited")
    /\ [][(rpc = "wk_set" /\ retpc = "fr_join" /\ rpc' # rpc) =>
            "EXIT" \in wake_why']_vars
    /\ [][(rpc # "freed" /\ relLog' # relLog /\ wpc # "none") =>
            (rpc = "fr_release" /\ wpc = "exited")]_vars
    /\ ((retpc = "fr_join") ~> (rpc = "fr_release"))

\* C7 witness: control_free is past the join and the worker has terminated
C7_Witness ==
    /\ rpc = "fr_release"
    /\ wpc = "exited"
    /\ "EXIT" \in wake_why


\* C8: reader dispatch. A read hook returning NONE leaves wake_why and the
\* worker alone; EXIT alone ends the process without waking the worker; any
\* other set goes through control_must_wake: lock, OR exactly the returned
\* bits into wake_why with the mutex held, unlock, signal the condition
\* variable (a blocked worker is woken), return to the event loop.
C8_ReaderDispatch ==
    /\ [][(rpc = "rd_ret" /\ rpc' # rpc) =>
            /\ wake_why' = wake_why
            /\ wpc' = wpc
            /\ mtx' = mtx
            /\ rpc' = IF why' = CONTROL_WHY_NONE THEN "idle"
                      ELSE IF why' = {"EXIT"} THEN "fatal"
                      ELSE "wk_lock"
            /\ (rpc' = "wk_lock" => retpc' = "idle")]_vars
    /\ [][rpc = "fatal" => (wake_why' = wake_why /\ wpc' = wpc)]_vars
    /\ [][(retpc = "idle" /\ rpc = "wk_lock" /\ rpc' # rpc) =>
            (rpc' = "wk_set" /\ mtx' = "reactor" /\ wake_why' = wake_why)]_vars
    /\ [][(retpc = "idle" /\ rpc = "wk_set" /\ rpc' # rpc) =>
            /\ mtx = "reactor"
            /\ wake_why' = wake_why \cup why
            /\ rpc' = "wk_unlock"]_vars
    /\ [][(retpc = "idle" /\ rpc = "wk_unlock" /\ rpc' # rpc) =>
            (rpc' = "wk_signal" /\ mtx' = "free" /\ wake_why' = wake_why)]_vars
    /\ [][(retpc = "idle" /\ rpc = "wk_signal" /\ rpc' # rpc) =>
            /\ rpc' = "idle"
            /\ wake_why' = wake_why
            /\ wpc' = IF wpc = "w_wait" THEN "w_rewake" ELSE wpc]_vars
    /\ []((retpc = "idle" /\ rpc \in {"wk_lock", "wk_set", "wk_unlock", "wk_signal"})
            => why \notin {CONTROL_WHY_NONE, {"EXIT"}})

\* C8 witness: the dispatch is about to signal, its bits are in wake_why
\* next to a bit that was asserted before
C8_Witness ==
    /\ rpc = "wk_signal"
    /\ retpc = "idle"
    /\ why \subseteq wake_why
    /\ wake_why # why

\* C9 (as claimed): while the worker thread exists and has not been joined,
\* a step that changes wake_why, cbev, dbev or a transaction field is taken
\* by a thread that holds the session mutex.
C9_WritesUnderMutex ==
    [][(wpc # "none" /\ rpc \notin {"fr_release", "freed"}
          /\ sessVars' # sessVars) =>
         \/ (rpc' # rpc /\ wpc' = wpc /\ mtx = "reactor")
         \/ (wpc' # wpc /\ rpc' = rpc /\ mtx = "worker")]_vars

\* C10: hook locking discipline. The thread hooks run in the worker with
\* the mutex held by the worker; the start, stop, open, close and read hooks
\* run in the reactor thread while it does not hold the mutex, the close
\* hook after the side's slot has been cleared.
C10_HookLocking ==
    /\ wpc \in {"w_client", "w_dnode"} => mtx = "worker"
    /\ rpc \in {"new_cstart", "new_dstart", "nobsock", "nodnode", "fr_release",
                "co_open", "cl_hook", "rd_hook"} => mtx # "reactor"
    /\ rpc = "cl_hook" => slot(side) = NULL

\* C10 witness: the close hook is about to run on a cleared slot while the
\* worker is inside a thread hook with the mutex
C10_Witness ==
    /\ rpc = "cl_hook"
    /\ slot(side) = NULL
    /\ wpc = "w_client"
    /\ wake_why \cap ClientBits # {}
    /\ ops["client"]
    /\ mtx = "worker"


\* C11: a connection-level EOF or ERROR is not fatal. While it is handled
\* the process does not end, EXIT is not asserted, the worker is not made
\* to exit and the listener stays registered; the handling ends in the
\* event loop with the side's slot empty. With the client slot empty the
\* listener can accept, and an accepted client whose open hook succeeds
\* ends attached and enabled for read and write.
C11_CloseNotFatal ==
    /\ [][(rpc \in {"cl_lock", "cl_free", "cl_unlock", "cl_hook"}
            /\ "EXIT" \notin wake_why) =>
            /\ "EXIT" \notin wake_why'
            /\ wpc' \notin {"w_exit", "exited", "none"}
            /\ rpc' \notin {"fatal", "abort", "crashed"}
            /\ LFD \in fds'.open]_vars
    /\ [][(rpc = "cl_hook" /\ rpc' # rpc) =>
            (rpc' = "idle" /\ slot(side) = NULL /\ cbev' = cbev /\ dbev' = dbev)]_vars
    /\ []((rpc = "idle" /\ cbev = NULL) =>
            (LFD \in fds.open /\ ClientFds \ fds.open # {}))
    /\ [][(rpc = "co_check" /\ side = "client" /\ cbev = NULL /\ rpc' # rpc) =>
            rpc' = "co_newbev"]_vars
    /\ [][(rpc = "co_open" /\ side = "client" /\ rpc' # rpc /\ opened'["client"]) =>
            rpc' = "co_enable"]_vars
    /\ [][(rpc = "co_enable" /\ side = "client" /\ rpc' # rpc) =>
            /\ rpc' = "idle"
            /\ cbev' # NULL
            /\ bevs'[cbev'] = "enabled"
            /\ opened'["client"]]_vars

\* C11 witness: a client drop has been handled up to the close hook with the
\* worker running, EXIT not asserted and the listener registered
C11_Witness ==
    /\ rpc = "cl_hook"
    /\ side = "client"
    /\ cbev = NULL
    /\ wpc \in {"w_lock", "w_check", "w_wait", "w_client", "w_dnode", "w_unlock"}
    /\ "EXIT" \notin wake_why
    /\ LFD \in fds.open


\* C12: control_set_transactions with a non-empty list while the table is
\* not empty fails the assertion, the process ends there and the installed
\* list and its fields stay as they were; a clear (null list, n = 0) passes
\* the assertion in every state and leaves the table empty.
C12_InstallPrecondition ==
    /\ [][(rpc = "st_body" /\ rpc' # rpc /\ args[2] > 0 /\ ~tableEmpty) =>
            /\ ~control_set_transactions_assert(args[1], args[2])
            /\ rpc' = "abort"
            /\ UNCHANGED txnVars]_vars
    /\ [][rpc = "abort" => UNCHANGED txnVars]_vars
    /\ [][(rpc = "st_body" /\ rpc' # rpc /\ args = <<NULL_TXNS, 0>>) =>
            /\ control_set_transactions_assert(args[1], args[2])
            /\ rpc' = "st_unlock"
            /\ ctl_txns' = NULL_TXNS
            /\ ctl_n_txns' = 0
            /\ ctl_cur_txn' = -1]_vars

\* C12 witness: the assertion has stopped an install of a non-empty list
\* over an installed list, which is still in place
C12_Witness ==
    /\ rpc = "abort"
    /\ args[2] > 0
    /\ ctl_cur_txn # -1
    /\ ctl_n_txns > 0
    /\ ctl_txns # NULL_TXNS


Untampered == wire = SubSeq(spkt, 1, Len(wire))

\* The fields of packet memory a (on a host of byte order al) and of packet
\* memory b (byte order bl) have the same values, for packets of type t
SameFields(t, al, a, bl, b) ==
    IF t \in {RAW_PKT_TYPE_REQ, RAW_PKT_TYPE_RES}
      THEN /\ get16(al, a, 4) = get16(bl, b, 4)
           /\ a[7] = b[7] /\ a[8] = b[8]
           /\ get32(al, a, 8) = get32(bl, b, 8)
    ELSE IF t = RAW_PKT_TYPE_BSAMP
      THEN /\ get32(al, a, 4) = get32(bl, b, 4)
           /\ get16(al, a, 8) = get16(bl, b, 8)
           /\ get16(al, a, 10) = get16(bl, b, 10)
           /\ Len(a) = Len(b)
           /\ \A i \in 0..(raw_bsamp_nsamps(al, a) - 1) :
                get16(al, a, PacketSize + i * SampSize)
                  = get16(bl, b, PacketSize + i * SampSize)
    ELSE TRUE

\* C14: codec round trip. A packet of one of the four types, sent by
\* raw_packet_send and received untouched by raw_packet_recv with the
\* expected type given (or left 0 for the fixed-size types), arrives with
\* magic 0x5A, version 0, the same type and flags and the same value in
\* every payload field and every sample, whatever the byte orders of the two
\* hosts. The sample loop of send runs over the host-order sample count, as
\* does the one of receive, and the multi-byte fields are big-endian on the
\* wire.
C14_RoundTrip ==
    (/\ cpc = "done"
     /\ Untampered
     /\ sockerr = "none"
     /\ p_type(orig) \in KnownTypes
     /\ \/ packtype0 = p_type(orig)
        \/ (packtype0 = 0 /\ p_type(orig) # RAW_PKT_TYPE_BSAMP)) =>
        /\ ret = Len(wire)
        /\ errno = "none"
        /\ packtype = p_type(orig)
        /\ p_magic(rbuf) = PACKET_HEADER_MAGIC
        /\ p_proto_vers(rbuf) = PACKET_HEADER_PROTO_VERS
        /\ p_type(rbuf) = p_type(orig)
        /\ p_flags(rbuf) = p_flags(orig)
        /\ SameFields(p_type(orig), sle, orig, rle, rbuf)
        /\ SameFields(p_type(orig), sle, orig, FALSE, wire)
        /\ p_type(orig) = RAW_PKT_TYPE_BSAMP =>
             /\ snd_n = raw_bsamp_nsamps(sle, orig)
             /\ rcv_n = raw_bsamp_nsamps(sle, orig)
             /\ Len(wire) = PacketSize + snd_n * SampSize

\* C14 witness: a board sample of two samples has gone from a little-endian
\* host to a big-endian one
C14_Witness ==
    /\ cpc = "done"
    /\ Untampered
    /\ p_type(orig) = RAW_PKT_TYPE_BSAMP
    /\ sle /\ ~rle
    /\ snd_n = 2 /\ rcv_n = 2
    /\ ret = PacketSize + 2 * SampSize
    /\ get16(rle, rbuf, PacketSize) = 258
    /\ get16(rle, rbuf, PacketSize + SampSize) = 65280


\* C15: a received packet whose magic byte is not 0x5A makes raw_packet_recv
\* fail with EPROTO; the bytes are left as received (nothing is converted)
\* and *packtype keeps its value.
C15_MagicRejected ==
    (cpc = "done" /\ sockerr = "none" /\ wire[1] # PACKET_HEADER_MAGIC) =>
        /\ ret = -1
        /\ errno = "EPROTO"
        /\ packtype = packtype0
        /\ rcv_n = 0
        /\ Len(rbuf) = Len(rbuf0)
        /\ \A i \in 1..Len(rbuf) :
             IF i <= PacketSize THEN rbuf[i] = wire[i]
             ELSE rbuf[i] = rbuf0[i] \/ (i <= Len(wire) /\ rbuf[i] = wire[i])

\* C15 witness: a request with magic 0x5B was received on a little-endian
\* host with no type expected
C15_Witness ==
    /\ cpc = "done"
    /\ sockerr = "none"
    /\ wire[1] = 91
    /\ wire[3] = RAW_PKT_TYPE_REQ
    /\ rle
    /\ packtype0 = 0
    /\ errno = "EPROTO"


\* C16 (as claimed): a received packet with the magic byte but a version
\* byte other than 0x00 makes raw_packet_recv fail with EPROTO and is not
\* converted.
C16_VersionRejected ==
    (/\ cpc = "done"
     /\ sockerr = "none"
     /\ wire[1] = PACKET_HEADER_MAGIC
     /\ wire[2] # PACKET_HEADER_PROTO_VERS) =>
        /\ ret = -1
        /\ errno = "EPROTO"
        /\ rcv_n = 0
        /\ \A i \in 1..PacketSize : rbuf[i] = wire[i]


\* C17: expected-type handling on a received packet with the magic byte.
\* With *packtype = 0 it becomes the received type, and a received type
\* that is none of the four codes then fails with EPROTO; with *packtype =
\* T1 # 0 and a received type T2 # T1 the receive fails with EIO, *packtype
\* stays T1 and the bytes are left as received.
C17_ExpectedType ==
    (cpc = "done" /\ sockerr = "none" /\ wire[1] = PACKET_HEADER_MAGIC) =>
        /\ packtype0 = 0 =>
             /\ packtype = wire[3]
             /\ wire[3] \notin KnownTypes => (ret = -1 /\ errno = "EPROTO")
             /\ wire[3] \in KnownTypes => (ret # -1 /\ errno = "none")
        /\ (packtype0 # 0 /\ wire[3] # packtype0) =>
             /\ ret = -1
             /\ errno = "EIO"
             /\ packtype = packtype0
             /\ rcv_n = 0
             /\ \A i \in 1..PacketSize : rbuf[i] = wire[i]
        /\ (packtype0 # 0 /\ wire[3] = packtype0) =>
             (ret # -1 /\ packtype = packtype0)

\* C17 witness: a response arrived where a request was expected, on a
\* little-endian host
C17_Witness ==
    /\ cpc = "done"
    /\ sockerr = "none"
    /\ wire[1] = PACKET_HEADER_MAGIC
    /\ packtype0 = RAW_PKT_TYPE_REQ
    /\ wire[3] = RAW_PKT_TYPE_RES
    /\ rle
    /\ errno = "EIO"
    /\ packtype = RAW_PKT_TYPE_REQ

\* C18 (as claimed): when recv() fails, raw_packet_recv returns -1 with the
\* errno recv() set, never EPROTO, whatever the packet memory held before
\* the call, and the packet memory is not converted.
C18_SocketErrorReported ==
    (cpc = "done" /\ sockerr # "none") =>
        /\ ret = -1
        /\ errno = sockerr
        /\ rbuf = rbuf0
        /\ packtype = packtype0


\* C19: the request id counter is 0 once control_new has initialised the
\* transaction fields; afterwards the only step that changes it is an
\* install of n > 0 requests, which stamps them with the n consecutive
\* values from the counter on, modulo 2^16, and leaves the counter n
\* further, modulo 2^16; a clear, a connection close and every other step
\* leave it as it is.
C19_RidCounter ==
    [][IF rpc = "new_evt"
         THEN rpc' = "new_thread" => ctl_cur_rid' = 0
       ELSE IF rpc = "st_body" /\ rpc' = "st_unlock" /\ args[2] > 0
         THEN /\ ctl_cur_rid' = (ctl_cur_rid + args[2]) % 65536
              /\ \A i \in 1..args[2] :
                    ctl_txns'[1][i] = (ctl_cur_rid + i - 1) % 65536
         ELSE ctl_cur_rid' = ctl_cur_rid]_vars

\* An install of two requests has stamped 65535 and then 0
C19_Witness ==
    /\ rpc = "st_unlock"
    /\ ctl_n_txns = 2
    /\ ctl_txns[1][1] = 65535 /\ ctl_txns[1][2] = 0
    /\ ctl_cur_rid = 1


\* C20: a pass of the worker that holds the mutex and finds wake_why # NONE.
\* With EXIT asserted, alone or with other bits, the worker goes straight to
\* releasing the mutex and terminating, and wake_why, the transaction table
\* and what the hooks keep are as they were: no thread hook ran. Otherwise
\* the client step comes first and runs the client hook exactly when
\* CLIENT_CMD or CLIENT_RES is asserted (a hook that runs consumes those
\* bits; without it nothing changes), the data node step comes second and
\* runs the data node hook exactly when DNODE_TXN is asserted at that point,
\* and the mutex is the worker's until the unlock step that follows. No
\* other thread changes wake_why during the pass.
C20_WorkerPass ==
    [][/\ (wpc = "w_check" /\ wake_why # CONTROL_WHY_NONE /\ wpc' # wpc) =>
            /\ mtx = "worker" /\ mtx' = "worker"
            /\ wpc' = IF "EXIT" \in wake_why THEN "w_exit" ELSE "w_client"
            /\ UNCHANGED <<wake_why, txnVars, hookVars>>
       /\ (wpc = "w_exit" /\ wpc' # wpc) =>
            /\ wpc' = "exited"
            /\ mtx = "worker" /\ mtx' = "free"
            /\ UNCHANGED <<wake_why, txnVars, hookVars>>
       /\ (wpc = "w_client" /\ wpc' # wpc) =>
            /\ wpc' = "w_dnode"
            /\ mtx = "worker" /\ mtx' = "worker"
            /\ "EXIT" \notin wake_why
            /\ IF wake_why \cap ClientBits # {} /\ ops["client"]
                 THEN wake_why' \cap ClientBits = {}
                 ELSE UNCHANGED <<wake_why, txnVars, hookVars>>
       /\ (wpc = "w_dnode" /\ wpc' # wpc) =>
            /\ wpc' = "w_unlock"
            /\ mtx = "worker" /\ mtx' = "worker"
            /\ IF "DNODE_TXN" \in wake_why /\ ops["dnode"]
                 THEN "DNODE_TXN" \notin wake_why'
                 ELSE UNCHANGED <<wake_why, txnVars, hookVars>>
       /\ (wpc = "w_unlock" /\ wpc' # wpc) =>
            /\ wpc' = "w_lock"
            /\ mtx = "worker" /\ mtx' = "free"
            /\ UNCHANGED <<wake_why, txnVars, hookVars>>
       /\ (wpc \in {"w_exit", "w_client", "w_dnode", "w_unlock"} /\ wpc' = wpc) =>
            UNCHANGED <<mtx, wake_why>>]_vars

\* The worker is about to run the data node hook for the transaction the
\* client hook has just moved the cursor to
C20_Witness ==
    /\ wpc = "w_dnode"
    /\ mtx = "worker"
    /\ "DNODE_TXN" \in wake_why
    /\ ops["dnode"]
    /\ ctl_cur_txn = 1
    /\ ctl_cur_txn \notin inflight \cup responded


\* C21: control_conn_open past the slot test. From the creation of the
\* endpoint up to the return of the open hook the endpoint is disabled and,
\* once stored, the slot holds it. When the hook fails the call returns with
\* the endpoint freed, the slot null and the descriptor not open; when the
\* hook succeeds the call returns with the slot holding the endpoint, the
\* endpoint enabled and the descriptor open.
C21_OpenHookOutcome ==
    [][/\ rpc \in {"co_lock", "co_set", "co_unlock", "co_open", "co_enable",
                   "co_refuse", "co_free"} => bevs[fd] = "disabled"
       /\ rpc \in {"co_unlock", "co_open", "co_enable", "co_refuse",
                   "co_free", "co_clear"} => slot(side) = fd
       /\ (rpc = "co_open" /\ rpc' # rpc) =>
            rpc' = IF opened'[side] THEN "co_enable" ELSE "co_refuse"
       /\ (rpc = "co_clear" /\ rpc' # rpc) =>
            /\ ~opened[side]
            /\ (IF side = "client" THEN cbev' ELSE dbev') = NULL
            /\ bevs'[fd] = "none"
            /\ fd \notin fds'.open
       /\ (rpc = "co_enable" /\ rpc' # rpc) =>
            /\ opened[side]
            /\ (IF side = "client" THEN cbev' ELSE dbev') = fd
            /\ bevs'[fd] = "enabled"
            /\ fd \in fds'.open]_vars

\* A client's open hook has failed; its endpoint is freed and its descriptor
\* closed, and the call is about to null the slot and return
C21_Witness ==
    /\ rpc = "co_clear"
    /\ side = "client"
    /\ ~opened["client"]
    /\ bevs[fd] = "none"
    /\ fd \notin fds.open


\* Occurrences of x in the sequence q
Count(q, x) == Cardinality({i \in DOMAIN q : q[i] = x})

\* C22: a side's start hook succeeds at most once, the client's before the
\* data node's; a side's stop hook is never called more often than its
\* start hook has succeeded; when control_new has returned null each side's
\* stop hook has been called once if its start hook had succeeded and not
\* at all otherwise; when control_free has returned each side's stop hook
\* has been called exactly once.
C22_HookPairing ==
    /\ \A s \in Sides : /\ Count(acqLog, s) <= 1
                        /\ Count(relLog, s) <= Count(acqLog, s)
    /\ rpc = "new_cstart" => \A s \in Sides : Count(acqLog, s) = 0
    /\ rpc = "new_dstart" => /\ Count(acqLog, "client") = 1
                             /\ Count(acqLog, "dnode") = 0
    /\ \A i, j \in DOMAIN acqLog :
          (acqLog[i] = "client" /\ acqLog[j] = "dnode") => i < j
    /\ "dnode" \in {acqLog[i] : i \in DOMAIN acqLog} =>
          "client" \in {acqLog[i] : i \in DOMAIN acqLog}
    /\ rpc = "new_null" =>
          \A s \in Sides : Count(relLog, s) = Count(acqLog, s)
    /\ rpc = "freed" => \A s \in Sides : Count(relLog, s) = 1

\* control_new has returned null after the data node's start hook failed:
\* the client's stop hook has run, the data node's has not
C22_Witness ==
    /\ rpc = "new_null"
    /\ Count(acqLog, "client") = 1 /\ Count(acqLog, "dnode") = 0
    /\ Count(relLog, "client") = 1 /\ Count(relLog, "dnode") = 0


\* C23: while the worker exists and the reactor does not hold the session
\* mutex, a side's slot is non-null exactly when that side's open hook has
\* returned success for a connection that has not been closed since.
C23_SlotIffAttached ==
    (wpc \notin {"none", "exited"} /\ mtx # "reactor") =>
        \A s \in Sides : (slot(s) # NULL) <=> opened[s]


\* C24: the three emptiness conditions of the transaction table agree in
\* every state (ctl_txns is null iff ctl_n_txns = 0 iff ctl_cur_txn = -1),
\* and ctl_cur_txn is one of -1 .. ctl_n_txns - 1.
C24_EmptinessAgrees ==
    /\ (ctl_txns = NULL_TXNS) <=> (ctl_n_txns = 0)
    /\ (ctl_n_txns = 0) <=> (ctl_cur_txn = -1)
    /\ ctl_cur_txn \in -1..(ctl_n_txns - 1)

\* control_free has been entered: its wake is under way or done
FreeInProgress ==
    \/ retpc = "fr_join"
    \/ rpc \in {"fr_join", "fr_release", "freed"}

\* C25: EXIT is asserted in wake_why, and the worker is terminating or has
\* terminated, only when control_free has been entered; whatever a read
\* hook returns, reader dispatch does not assert EXIT.
C25_ExitOnlyByFree ==
    ("EXIT" \in wake_why \/ wpc \in {"w_exit", "exited"}) => FreeInProgress

\* C26: no descriptor is closed while it is not open, whether by a direct
\* close or by freeing its close-on-free endpoint or listener: no socket is
\* closed a second time.
C26_NoDoubleClose == fds.bad = {}

\* C27: when the worker is about to call the client's thread hook (a
\* client bit is asserted and the hook is non-null) the client endpoint is
\* attached, and when it is about to call the data node's thread hook the
\* data node endpoint is attached.
C27_HookHasEndpoint ==
    /\ (wpc = "w_client" /\ wake_why \cap ClientBits # {} /\ ops["client"])
          => cbev # NULL
    /\ (wpc = "w_dnode" /\ "DNODE_TXN" \in wake_why /\ ops["dnode"])
          => dbev # NULL

\* Fairness for the consumption of wake bits: the reactor leaves the mutex
\* free between its callbacks, so a worker that wants the mutex gets it,
\* and the reactor completes the callbacks it has started.
StrongFairSpec == Spec /\ SF_vars(control_worker_main) /\ SF_vars(Reactor)

\* C28: whenever wake bits other than EXIT are asserted, the worker
\* eventually has consumed them all (wake_why is NONE again, after which it
\* blocks in pthread_cond_wait unless more is posted), whichever thread
\* hooks are null; the session being torn down or the process ending are
\* the only other ways out.
C28_BitsConsumed ==
    (wake_why # CONTROL_WHY_NONE /\ "EXIT" \notin wake_why)
        ~> (wake_why = CONTROL_WHY_NONE \/ "EXIT" \in wake_why \/ Dead)


\* The positions at which the reactor thread calls control_must_lock
ReactorLocks == {"new_thread", "co_lock", "st_lock", "wk_lock", "cl_lock"}

\* The positions at which the worker takes the mutex: control_must_lock and
\* the return of pthread_cond_wait
WorkerLocks == {"w_lock", "w_rewake"}

\* The reactor thread cannot go on: it wants the mutex and the mutex is not
\* free, or it is in pthread_join and the worker has not terminated
ReactorBlocked ==
    \/ rpc \in ReactorLocks /\ mtx # "free"
    \/ rpc = "fr_join" /\ wpc # "exited"

\* The worker cannot go on: it wants the mutex and the mutex is not free,
\* or it sleeps in pthread_cond_wait
WorkerBlocked ==
    \/ wpc \in WorkerLocks /\ mtx # "free"
    \/ wpc = "w_wait"

\* C29: a thread that is about to lock the session mutex does not hold it,
\* the mutex it locks is initialised and not destroyed, and the reactor
\* thread and the worker are never both blocked.
C29_DeadlockFree ==
    /\ rpc \in ReactorLocks => mtx \in {"free", "worker"}
    /\ wpc \in WorkerLocks => mtx \in {"free", "reactor"}
    /\ ~(ReactorBlocked /\ WorkerBlocked)

\* A read hook's control_set_transactions (have_lock = 0) waits for the
\* mutex while the worker is inside a pass, about to run the client's
\* thread hook
C29_Witness ==
    /\ rpc = "st_lock"
    /\ mtx = "worker"
    /\ wpc = "w_client"
    /\ wake_why \cap ClientBits # {}
    /\ ops["client"]

====
